---- MODULE Spec2Model ----
(***************************************************************************)
(* Model of the two example notebooks of the repository                    *)
(*   src/examples/FabryPerot/BasicFinesseFP.ipynb   (Finesse Fabry Perot)  *)
(*   src/unnamed/part_000                           (Optickle Sagnac)      *)
(* and of the parts of the convenience layer (qlance.finesse,              *)
(* qlance.optickle, qlance.controls) that the notebooks call.  The         *)
(* notebooks are in the source tree and are modelled statement by          *)
(* statement; the library functions they call are not, and are modelled    *)
(* from the notebooks' own description of them.                            *)
(***************************************************************************)
EXTENDS Integers, Sequences, FiniteSets, TLC

VARIABLES
    pc,        \* pc[nb]: index of the next statement of notebook nb
    created,   \* the objects constructed so far (kat, katFR, katSweep, opt, ...)
    ran,       \* ran[obj]: the doftypes for which obj.run has computed a response
    swept,     \* the objects on which sweep has been called
    order,     \* model building: the build statements executed, in execution order
    kat,       \* model building: the Finesse model built so far
    resp,      \* transfer functions: the response matrix the engine computed
    call,      \* transfer functions: the last getTF call made
    tf         \* transfer functions: the value the last getTF call returned

nbvars == <<pc, created, ran, swept>>
buildvars == <<order, kat>>
tfvars == <<resp, call, tf>>
vars == <<pc, created, ran, swept, order, kat, resp, call, tf>>

(***************************************************************************)
(* Values passed to the library: a string, a dictionary (a linear          *)
(* combination: name -> coefficient), a DegreeOfFreedom, or nothing.       *)
(***************************************************************************)
None == [kind |-> "none"]
Str(s) == [kind |-> "str", val |-> s]
Dict(d) == [kind |-> "dict", val |-> d]

\* DegreeOfFreedom(drives, doftype=..., probes=...): stores the drives and the
\* doftype and, optionally, the probes.
DegreeOfFreedom(drives, doftype, probes) ==
    [kind |-> "dof", drives |-> drives, doftype |-> doftype, probes |-> probes]

\* The doftype of run and getTF when the keyword is not given.
DefaultDoftype == "pos"

DofTypes == {"pos", "freq", "amp"}

\* The degrees of freedom the notebooks define.
Laser1 == DegreeOfFreedom(Str("Laser"), "amp", None)
Laser2 == DegreeOfFreedom(Str("Laser"), "amp", Str("REFL_I"))
CARM == Dict("EX" :> 1 @@ "EY" :> 1)
DARM == Dict("EX" :> 1 @@ "EY" :> -1)

(***************************************************************************)
(* getTF / plotTF argument forms:                                          *)
(*   getTF(probes, drives, doftype=t)   getTF(probes, dof)   getTF(dof)    *)
(* TFArgs gives the probes, drives and doftype a call denotes.             *)
(***************************************************************************)
\* A resolution of the arguments that takes the doftype from the keyword
\* even when a DegreeOfFreedom is given.
TFArgsKeywordOnly(args, doftype) ==
    LET t == IF doftype = "" THEN DefaultDoftype ELSE doftype IN
    IF args[1].kind = "dof"
    THEN [probes |-> args[1].probes, drives |-> args[1].drives, doftype |-> t]
    ELSE IF args[2].kind = "dof"
    THEN [probes |-> args[1], drives |-> args[2].drives, doftype |-> t]
    ELSE [probes |-> args[1], drives |-> args[2], doftype |-> t]

TFArgs(args, doftype) ==
    IF args[1].kind = "dof"
    THEN [probes |-> args[1].probes, drives |-> args[1].drives,
          doftype |-> args[1].doftype]
    ELSE IF args[2].kind = "dof"
    THEN [probes |-> args[1], drives |-> args[2].drives,
          doftype |-> args[2].doftype]
    ELSE [probes |-> args[1], drives |-> args[2],
          doftype |-> IF doftype = "" THEN DefaultDoftype ELSE doftype]

(***************************************************************************)
(* The notebooks, statement by statement.  A statement is a call on an     *)
(* object: [op, obj, args, doftype, line].  Only the calls on the model    *)
(* and plant objects are listed; imports, matplotlib settings, numpy       *)
(* arithmetic and the module-level plotting.plotTF(ff, tf) (which plots    *)
(* data already returned) touch none of the modelled state.                *)
(***************************************************************************)
Stmt(op, obj, args, doftype, line) ==
    [op |-> op, obj |-> obj, args |-> args, doftype |-> doftype, line |-> line]

\* The code cells of BasicFinesseFP.ipynb, in document order.
FPCellModel == << Stmt("new", "kat", <<>>, "", 89) >>
FPCellKatFR == << Stmt("new", "katFR", <<>>, "", 178) >>
FPCellRunPos == << Stmt("run", "katFR", <<>>, "", 191) >>
FPCellPlotPos == <<
    Stmt("plotTF", "katFR", <<Str("REFL_I"), Str("EX")>>, "", 228),
    Stmt("plotTF", "katFR", <<Str("REFL_Q"), Str("EX")>>, "", 229) >>
FPCellRunLaser == <<
    Stmt("run", "katFR", <<>>, "freq", 261),
    Stmt("run", "katFR", <<>>, "amp", 262) >>
FPCellGetLaser == <<
    Stmt("getTF", "katFR", <<Str("REFL_I"), Str("Laser")>>, "freq", 278),
    Stmt("getTF", "katFR", <<Str("REFL_I"), Str("Laser")>>, "amp", 279) >>
FPCellPlotAmp == << Stmt("plotTF", "katFR", <<Str("REFL_I"), Str("Laser")>>, "amp", 300) >>
FPCellPlotDof == <<
    Stmt("plotTF", "katFR", <<Str("REFL_I"), Str("Laser")>>, "amp", 332),
    Stmt("plotTF", "katFR", <<Str("REFL_I"), Laser1>>, "", 333),
    Stmt("plotTF", "katFR", <<Laser2>>, "", 334) >>
FPCellSweep == <<
    Stmt("new", "katSweep", <<>>, "", 410),
    Stmt("sweep", "katSweep", <<>>, "", 415) >>
FPCellGetSweep == <<
    Stmt("getSweepSignal", "katSweep", <<Str("REFL_I"), Str("EX")>>, "", 452),
    Stmt("getSweepSignal", "katSweep", <<Str("REFL_Q"), Str("EX")>>, "", 453) >>
FPCellPlotSweep == <<
    Stmt("plotSweepSignal", "katSweep", <<Str("REFL_I"), Str("EX")>>, "", 484),
    Stmt("plotSweepSignal", "katSweep", <<Str("REFL_Q"), Str("EX")>>, "", 485) >>

\* A notebook whose cell computing the laser responses comes after the cells
\* that read them.
FPProgramRunLaserLate ==
    FPCellModel \o FPCellKatFR \o FPCellRunPos \o FPCellPlotPos
    \o FPCellGetLaser \o FPCellPlotAmp \o FPCellPlotDof \o FPCellRunLaser
    \o FPCellSweep \o FPCellGetSweep \o FPCellPlotSweep

FPProgram ==
    FPCellModel \o FPCellKatFR \o FPCellRunPos \o FPCellPlotPos
    \o FPCellRunLaser \o FPCellGetLaser \o FPCellPlotAmp \o FPCellPlotDof
    \o FPCellSweep \o FPCellGetSweep \o FPCellPlotSweep

\* The code cells of the polarization Sagnac notebook, in document order.
SagCellOpt == << Stmt("new", "opt", <<>>, "", 82) >>
SagCellRun == << Stmt("run", "opt", <<>>, "", 100) >>
SagCellShow == <<
    Stmt("showfDC", "opt", <<>>, "", 109),
    Stmt("showsigDC", "opt", <<>>, "", 118) >>
SagCellPlotTF == <<
    Stmt("plotTF", "opt", <<Str("REFL_I"), CARM>>, "", 137),
    Stmt("plotTF", "opt", <<Str("AS_DIFF"), DARM>>, "", 138) >>
SagCellPlotASD == << Stmt("plotQuantumASD", "opt", <<Str("AS_DIFF"), DARM>>, "", 151) >>
SagCellSqueezed == <<
    Stmt("new", "opt00", <<>>, "", 172),
    Stmt("run", "opt00", <<>>, "", 173),
    Stmt("new", "opt45", <<>>, "", 182),
    Stmt("run", "opt45", <<>>, "", 183),
    Stmt("new", "opt90", <<>>, "", 192),
    Stmt("run", "opt90", <<>>, "", 193),
    Stmt("new", "opt135", <<>>, "", 202),
    Stmt("run", "opt135", <<>>, "", 203) >>
SagCellGetTF == << Stmt("getTF", "opt", <<Str("AS_DIFF"), DARM>>, "", 212) >>
SagCellNoise == <<
    Stmt("getQuantumNoise", "opt", <<Str("AS_DIFF")>>, "", 223),
    Stmt("getQuantumNoise", "opt00", <<Str("AS_DIFF")>>, "", 224),
    Stmt("getQuantumNoise", "opt45", <<Str("AS_DIFF")>>, "", 225),
    Stmt("getQuantumNoise", "opt90", <<Str("AS_DIFF")>>, "", 226),
    Stmt("getQuantumNoise", "opt135", <<Str("AS_DIFF")>>, "", 227) >>

SagnacProgram ==
    SagCellOpt \o SagCellRun \o SagCellShow \o SagCellPlotTF \o SagCellPlotASD
    \o SagCellSqueezed \o SagCellGetTF \o SagCellNoise

Notebooks == {"FP", "Sagnac"}
Program(nb) == IF nb = "FP" THEN FPProgram ELSE SagnacProgram

Objects == {"kat", "katFR", "katSweep", "opt", "opt00", "opt45", "opt90", "opt135"}

TFQueries == {"getTF", "plotTF"}
NoiseQueries == {"getQuantumNoise", "plotQuantumASD"}
SweepQueries == {"getSweepSignal", "plotSweepSignal"}

\* The doftype a run or a transfer function query is about.
StmtDoftype(s) ==
    IF s.op \in TFQueries THEN TFArgs(s.args, s.doftype).doftype
    ELSE IF s.doftype = "" THEN DefaultDoftype ELSE s.doftype

\* The result a query asks for has been computed on its object.
Available(s) ==
    IF s.op \in TFQueries THEN s.obj \in created /\ StmtDoftype(s) \in ran[s.obj]
    ELSE IF s.op \in NoiseQueries THEN s.obj \in created /\ ran[s.obj] # {}
    ELSE IF s.op \in SweepQueries THEN s.obj \in created /\ s.obj \in swept
    ELSE TRUE

\* One statement of a notebook runs: constructors, run and sweep change the
\* objects; queries and plots only return or draw what was computed.
Exec(nb) ==
    /\ pc[nb] <= Len(Program(nb))
    /\ LET s == Program(nb)[pc[nb]] IN
         /\ created' = IF s.op = "new" THEN created \cup {s.obj} ELSE created
         /\ ran' = IF s.op = "run"
                   THEN [ran EXCEPT ![s.obj] = @ \cup {StmtDoftype(s)}]
                   ELSE ran
         /\ swept' = IF s.op = "sweep" THEN swept \cup {s.obj} ELSE swept
    /\ pc' = [pc EXCEPT ![nb] = @ + 1]
    /\ UNCHANGED <<buildvars, tfvars>>

ExecFP == Exec("FP")
ExecSagnac == Exec("Sagnac")

(***************************************************************************)
(* Model building (the model definition cell of BasicFinesseFP.ipynb).     *)
(* A kat model is its components, its nodes, the spaces that connect       *)
(* nodes, and its probes.  Non-integer parameters are in units of 1/1000.  *)
(***************************************************************************)
fmod == 11000000    \* modulation frequency [Hz]
gmod == 100         \* modulation depth 0.1
Pin == 1            \* input power [W]
Ti == 14            \* input coupler transmissivity 0.014
Lcav == 40000       \* cavity length [m]

EmptyKat == [components |-> {}, nodes |-> {}, spaces |-> {}, probes |-> {}]

Component(name, type, param) == [name |-> name, type |-> type, param |-> param]
Probe(name, node, nfreq, freq, phase) ==
    [name |-> name, node |-> node, nfreq |-> nfreq, freq |-> freq, phase |-> phase]

\* addMirror(kat, name, Thr=0): a mirror with the nodes name_fr and name_bk.
addMirror(k, name, Thr) ==
    [k EXCEPT !.components = @ \cup {Component(name, "mirror", Thr)},
              !.nodes = @ \cup {name \o "_fr", name \o "_bk"}]

\* addLaser(kat, name, P): a laser with the node name_out.
addLaser(k, name, P) ==
    [k EXCEPT !.components = @ \cup {Component(name, "laser", P)},
              !.nodes = @ \cup {name \o "_out"}]

\* addModulator(kat, name, fmod, gmod, order, type): a modulator with the
\* nodes name_in and name_out.
addModulator(k, name, f, g) ==
    [k EXCEPT !.components = @ \cup {Component(name, "modulator", <<f, g>>)},
              !.nodes = @ \cup {name \o "_in", name \o "_out"}]

\* A space that connects only nodes some component has already defined.
addSpaceExistingNodes(k, n1, n2, len) ==
    IF {n1, n2} \subseteq k.nodes
    THEN [k EXCEPT !.spaces = @ \cup {[n1 |-> n1, n2 |-> n2, len |-> len]}]
    ELSE k

\* addSpace(kat, node1, node2, length): a space connecting the two nodes,
\* which are named by the standard convention whether or not the components
\* that own them have been added yet.
addSpace(k, n1, n2, len) ==
    [k EXCEPT !.spaces = @ \cup {[n1 |-> n1, n2 |-> n2, len |-> len]},
              !.nodes = @ \cup {n1, n2}]

\* A readout whose Q photodiode is demodulated at the same phase as I.
addReadoutSamePhase(k, name, node, f, phase) ==
    [k EXCEPT !.probes = @ \cup { Probe(name \o "_DC", node, 0, 0, 0),
                                  Probe(name \o "_I", node, 1, f, phase),
                                  Probe(name \o "_Q", node, 1, f, phase) },
              !.nodes = @ \cup {node}]

\* addReadout(kat, name, node, fmod, phase): a DC photodiode name_DC and RF
\* photodiodes name_I, name_Q demodulated at fmod with phase and phase + 90.
addReadout(k, name, node, f, phase) ==
    [k EXCEPT !.probes = @ \cup { Probe(name \o "_DC", node, 0, 0, 0),
                                  Probe(name \o "_I", node, 1, f, phase),
                                  Probe(name \o "_Q", node, 1, f, phase + 90) },
              !.nodes = @ \cup {node}]

\* The component and space statements of the model definition cell, in
\* document order.  (setMechTF, lines 97-98, configures mirrors already
\* added; it adds no component, node, space or probe.)
BuildProgram == <<
    [fn |-> "addMirror", a |-> <<"EX", 0>>],
    [fn |-> "addMirror", a |-> <<"IX", Ti>>],
    [fn |-> "addSpace", a |-> <<"IX_fr", "EX_fr", Lcav>>],
    [fn |-> "addLaser", a |-> <<"Laser", Pin>>],
    [fn |-> "addModulator", a |-> <<"Mod", fmod, gmod>>],
    [fn |-> "addSpace", a |-> <<"Laser_out", "Mod_in", 0>>],
    [fn |-> "addSpace", a |-> <<"Mod_out", "IX_bk", 0>>],
    [fn |-> "addReadout", a |-> <<"REFL", "IX_bk", fmod, 5>>] >>

ReadoutStmt == 8

\* The model after one build statement.
Apply(k, s) ==
    CASE s.fn = "addMirror" -> addMirror(k, s.a[1], s.a[2])
      [] s.fn = "addLaser" -> addLaser(k, s.a[1], s.a[2])
      [] s.fn = "addModulator" -> addModulator(k, s.a[1], s.a[2], s.a[3])
      [] s.fn = "addSpace" -> addSpace(k, s.a[1], s.a[2], s.a[3])
      [] s.fn = "addReadout" -> addReadout(k, s.a[1], s.a[2], s.a[3], s.a[4])

\* The model after the statements numbered in idx, executed in that order.
RECURSIVE BuildSeq(_)
BuildSeq(idx) ==
    IF idx = <<>> THEN EmptyKat
    ELSE Apply(BuildSeq(SubSeq(idx, 1, Len(idx) - 1)), BuildProgram[idx[Len(idx)]])

Range(f) == {f[i] : i \in DOMAIN f}

\* The statements numbered in S, in document order.
RECURSIVE DocOrder(_)
DocOrder(S) ==
    IF S = {} THEN <<>>
    ELSE LET m == CHOOSE x \in S : \A y \in S : y <= x
         IN Append(DocOrder(S \ {m}), m)

\* One build statement that has not run yet runs, whatever its position in
\* the cell.
Build(i) ==
    /\ i \notin Range(order)
    /\ order' = Append(order, i)
    /\ kat' = Apply(kat, BuildProgram[i])
    /\ UNCHANGED <<nbvars, tfvars>>

BuildInit ==
    /\ pc = [nb \in Notebooks |-> 1]
    /\ created = {}
    /\ ran = [o \in Objects |-> {}]
    /\ swept = {}
    /\ order = <<>>
    /\ kat = EmptyKat
    /\ resp = <<>>
    /\ call = None
    /\ tf = 0

BuildNext == \E i \in DOMAIN BuildProgram : Build(i)

SpecBuild == BuildInit /\ [][BuildNext]_vars

TFProbes == {"REFL_I", "AS_DIFF"}
TFDrives == {"EX", "EY", "Laser"}
TFDofTypes == {"pos", "amp"}
Coefs == {-1, 1}

\* The responses the engine may have computed: at most MaxNonZero pairs
\* respond, each with a value in 1..MaxVal.
MaxVal == 2
MaxNonZero == 2
RespKeys == TFDofTypes \X (TFProbes \X TFDrives)
Responses ==
    UNION { { [t \in TFDofTypes |->
                 [pd \in TFProbes \X TFDrives |->
                    IF <<t, pd>> \in S THEN v[<<t, pd>>] ELSE 0]] :
              v \in [S -> 1..MaxVal] } :
            S \in { X \in SUBSET RespKeys : Cardinality(X) <= MaxNonZero } }

\* A string names one probe or drive with coefficient 1.
AsDict(v) == IF v.kind = "str" THEN (v.val :> 1) ELSE v.val

\* The sum of f[x] over the set S.
RECURSIVE Sum(_, _)
Sum(f, S) ==
    IF S = {} THEN 0
    ELSE LET x == CHOOSE y \in S : TRUE IN f[x] + Sum(f, S \ {x})

\* A combination that adds the responses without their coefficients.
CombineUnweighted(m, P, D) ==
    Sum([pd \in (DOMAIN P) \X (DOMAIN D) |-> m[pd]], (DOMAIN P) \X (DOMAIN D))

\* The response of the combination P of probes to the combination D of
\* drives in the response matrix m.
Combine(m, P, D) ==
    Sum([pd \in (DOMAIN P) \X (DOMAIN D) |-> P[pd[1]] * D[pd[2]] * m[pd]],
        (DOMAIN P) \X (DOMAIN D))

\* getTF(*args, doftype=...): the transfer function the call denotes.
getTF(r, args, doftype) ==
    LET a == TFArgs(args, doftype)
    IN Combine(r[a.doftype], AsDict(a.probes), AsDict(a.drives))

\* Dictionaries over one or two names.
Dicts(names) ==
    { (n :> c) : n \in names, c \in Coefs }
    \cup { (q[1] :> q[3] @@ q[2] :> q[4]) :
             q \in { r \in names \X names \X Coefs \X Coefs : r[1] # r[2] } }

\* The DegreeOfFreedom instances getTF is called with: those of the
\* notebook, and the other single-drive ones with or without probes.
Dofs ==
    {Laser1, Laser2}
    \cup { DegreeOfFreedom(Str(d), t, None) : d \in TFDrives, t \in TFDofTypes }
    \cup { DegreeOfFreedom(Str(d), t, Str(p)) :
             d \in TFDrives, t \in TFDofTypes, p \in TFProbes }
    \cup { DegreeOfFreedom(DARM, t, Str(p)) : t \in TFDofTypes, p \in TFProbes }

\* The doftype keyword of a call: not given, or given.
Keywords == {"", "amp"}

\* The getTF calls made, by argument form.
StringCalls ==
    { [args |-> <<Str(q[1]), Str(q[2])>>, doftype |-> q[3]] :
        q \in TFProbes \X TFDrives \X Keywords }
DriveDictCalls ==
    { [args |-> <<Str(q[1]), Dict(q[2])>>, doftype |-> q[3]] :
        q \in TFProbes \X Dicts(TFDrives) \X Keywords }
ProbeDictCalls ==
    { [args |-> <<Dict(q[1]), Str(q[2])>>, doftype |-> q[3]] :
        q \in Dicts(TFProbes) \X TFDrives \X Keywords }
ProbeDofCalls ==
    { [args |-> <<Str(q[1]), q[2]>>, doftype |-> ""] : q \in TFProbes \X Dofs }
DofCalls ==
    { [args |-> <<dof>>, doftype |-> ""] :
        dof \in { x \in Dofs : x.probes.kind # "none" } }

\* The pending call returns.
Return ==
    /\ call.kind = "pending"
    /\ call' = [call EXCEPT !.kind = "call"]
    /\ tf' = getTF(resp, call.args, call.doftype)
    /\ UNCHANGED <<nbvars, buildvars, resp>>

\* getTF(probe, drive, doftype=t)
GetTFStrings ==
    /\ call.args[1].kind = "str" /\ call.args[2].kind = "str"
    /\ Return

\* getTF(probe, {d1: c1, d2: c2}, doftype=t)
GetTFDriveDict ==
    /\ call.args[1].kind = "str" /\ call.args[2].kind = "dict"
    /\ Return

\* getTF({p1: c1, p2: c2}, drive, doftype=t)
GetTFProbeDict ==
    /\ call.args[1].kind = "dict"
    /\ Return

\* getTF(probe, dof)
GetTFProbeDof ==
    /\ call.args[1].kind = "str" /\ call.args[2].kind = "dof"
    /\ Return

\* getTF(dof), for a DegreeOfFreedom that stores its probes
GetTFDof ==
    /\ call.args[1].kind = "dof"
    /\ Return

\* The engine has computed some response and one getTF call is made on it.
TFInit ==
    /\ pc = [nb \in Notebooks |-> 1]
    /\ created = {}
    /\ ran = [o \in Objects |-> {}]
    /\ swept = {}
    /\ order = <<>>
    /\ kat = EmptyKat
    /\ resp \in Responses
    /\ \E c \in StringCalls \cup DriveDictCalls \cup ProbeDictCalls
                 \cup ProbeDofCalls \cup DofCalls :
           call = [kind |-> "pending", args |-> c.args, doftype |-> c.doftype]
    /\ tf = 0

TFNext ==
    \/ GetTFStrings
    \/ GetTFDriveDict
    \/ GetTFProbeDict
    \/ GetTFProbeDof
    \/ GetTFDof

SpecTF == TFInit /\ [][TFNext]_vars

C2_QueriesAfterRun ==
    \A nb \in Notebooks :
        pc[nb] <= Len(Program(nb)) => Available(Program(nb)[pc[nb]])

\* Both notebooks have finished: the Fabry Perot notebook has computed and
\* read all three doftypes and the sweep, the Sagnac notebook has run and
\* read all five models.
C2_Witness ==
    /\ pc["FP"] = Len(FPProgram) + 1
    /\ pc["Sagnac"] = Len(SagnacProgram) + 1
    /\ ran["katFR"] = DofTypes
    /\ "katSweep" \in swept
    /\ \A o \in {"opt", "opt00", "opt45", "opt90", "opt135"} : ran[o] = {"pos"}

Init ==
    /\ pc = [nb \in Notebooks |-> 1]
    /\ created = {}
    /\ ran = [o \in Objects |-> {}]
    /\ swept = {}
    /\ order = <<>>
    /\ kat = EmptyKat
    /\ resp = <<>>
    /\ call = None
    /\ tf = 0

Next == ExecFP \/ ExecSagnac

Spec == Init /\ [][Next]_vars

====
